---- MODULE Spec2Model ----
(***************************************************************************)
(* Model of the AI usage tracking system: the rate-limited gateway         *)
(* (backend/src/server.ts), the SQLite persistence adapter, the AI         *)
(* service wrapper and the chat client's submit handler.                   *)
(*                                                                         *)
(* Strings that the code inspects character by character (user ids, the    *)
(* AUTHORIZED_USERIDS setting) are sequences of one-character strings, so  *)
(* that trim, toLowerCase and split are computed and not assumed.          *)
(*                                                                         *)
(* Scheduling.  The server is one Node.js process.  better-sqlite3 runs    *)
(* every statement synchronously, so the promises the adapter returns are  *)
(* settled when they are returned: the continuation of `await db.x(...)`   *)
(* is a microtask that runs before the callback of any other request.      *)
(* The only point where a handler waits for I/O is the model call in       *)
(* /api/submit.  A handler is therefore one action, except /api/submit,    *)
(* which is one action up to the model call and one from its return.       *)
(***************************************************************************)
EXTENDS Integers, Sequences, FiniteSets, TLC

(***************************************************************************)
(* Bounds of the model                                                     *)
(***************************************************************************)
\* ceiling used for MAX_REQUESTS_PER_USER in the checked configuration
MaxRequestsPerUser == 1
\* number of submissions that can wait for the model at the same time
NumSlots == 2
\* Spec: number of submissions that reach the model call, and number of rows
\* the events table takes
MaxSubmits == 1
MaxEvents == 1
\* SpecChat and SpecWindow: number of submissions that reach the model call;
\* SpecChat: number of rows the events table takes
MaxChatSubmits == 4
MaxChatEvents == 1
\* SpecEvents: number of rows the events table takes
MaxLoggedEvents == 2
\* SpecClient: number of times the user presses submit
MaxPresses == 3
\* SpecIdle and SpecTyping: number of times the clock advances, number of
\* activity signals, number of prompt changes
MaxTicks == 4
MaxSignals == 3
MaxChanges == 3
MaxPairSubmits == 2
MaxPairEvents == 1
MaxRecordSubmits == 2
MaxRecordEvents == 2
MaxScrollTop == 2
MaxScrollHeight == 3
MaxScrolls == 2
MaxHistory == 2
MaxTokenCount == 1
MaxStoredRows == 1

(***************************************************************************)
(* Configuration and inputs                                                *)
(***************************************************************************)
\* process.env.AUTHORIZED_USERIDS = "a1, B2"
AUTHORIZED_USERIDS == <<"a", "1", ",", " ", "B", "2">>

\* identifiers that requests carry: one the allow-list check accepts (in
\* another letter case than the configured entry), one it does not accept,
\* and a missing one
UserIDs == { <<"A", "1">>, <<"Z", "9">>, <<>> }

\* spellings of one identifier that the allow-list check takes for the entry
\* "a1": another letter case, the entry itself, a blank after it
Spellings == { <<"A", "1">>, <<"a", "1">>, <<"a", "1", " ">> }

\* every identifier a request of the model carries
AllUserIDs == UserIDs \cup Spellings \cup { <<"B", "2">> }

\* prompt texts: a missing prompt, and one text per submission, so that every
\* turn of a window can be told from the others
noPrompt == <<>>
promptText(n) == <<"p", n>>

\* event types that /api/log-event requests carry ("" is a missing type)
EventTypes == {"", "typing", "bogus"}

\* the data field of /api/log-event requests
EventData == {"undefined", "{k:1}"}

\* what the model collaborator does: throws, returns no content, or replies
ModelOutcomes == {"throw", "none", "reply"}

\* the content the model returns for a context: "" when it returns none,
\* else a text that answers the last prompt of the context
modelContent(outcome, ctx) ==
  IF outcome = "none" THEN <<>> ELSE <<"r", ctx[Len(ctx)].content[2]>>

SYSTEM_PROMPT == "SYSTEM"

\* what the client's text field can hold: nothing, blanks only, a text, a
\* text after a blank
FieldTexts == {<<>>, <<" ">>, <<"h", "i">>, <<" ", "h">>}

\* const IDLE_THRESHOLD = 60000
IDLE_THRESHOLD == 60000

\* the delay of the typing timer: setTimeout(..., 2000)
TYPING_DELAY == 2000

\* the amounts of time that pass between two steps of the view: 1 ms, and 1 ms
\* less than each of the two delays
Durations == {1, TYPING_DELAY - 1, IDLE_THRESHOLD - 1}

VARIABLES
  users,          \* rows of the users table
  interactions,   \* rows of the interactions table, in insertion order
  events,         \* rows of the events table, in insertion order
  conversations,  \* the in-memory map userID -> ConversationMessage[]
  req,            \* the submissions that wait for the model, with their locals
  resp,           \* the response sent by the last step, if it sent one
  submits,        \* number of submissions that reached the model call
  succ,           \* per identifier, number of /api/submit calls answered 200
  dropped,        \* whether a truncation has dropped a turn
  afterReset,     \* identifiers with a completed reset and no submission since
  prompt,         \* ChatInterface: the prompt state
  loading,        \* ChatInterface: the loading state
  error,          \* ChatInterface: the error state
  cpc,            \* where handleSubmit stands
  logCall,        \* the promptSubmit log call of the running handleSubmit
  logRequests,    \* number of requests sent to /api/log-event
  submitRequests, \* number of requests sent to /api/submit
  presses,        \* number of times the user pressed submit
  emitted,        \* the calls of apiService.logEvent, in order
  sent,           \* the prompts of the requests sent to /api/submit, in order
  answers,        \* the status of each answer of /api/submit the client got
  handled,        \* number of the client's requests to /api/log-event that the
                  \* network has delivered to the server or lost
  now,            \* Date.now(), in ms after the mount of the view, plus 1
  isIdle,         \* idle detection effect: the isIdle local
  lastActivityRef,    \* lastActivityRef.current
  idleTimer,          \* the pending idle timer: <<>> or <<the time it is due>>
  typingTimers,       \* the pending typing timers, each with the id setTimeout
                      \* returned, the time it is due and newValue.length
  typingTimerRef,     \* typingTimerRef.current: 0 (null) or a timer id
  typingStartTimeRef, \* typingStartTimeRef.current
  keystrokeCountRef,  \* keystrokeCountRef.current
  ticks,          \* number of times the clock has advanced
  signals,        \* number of activity signals the window has received
  changes         \* number of change events of the prompt field

serverVars ==
  <<users, interactions, events, conversations, req, resp, submits, succ,
    dropped, afterReset>>

\* the refs and locals of the idle detection and of the typing debounce
timerVars ==
  <<now, isIdle, lastActivityRef, idleTimer, typingTimers, typingTimerRef,
                 typingStartTimeRef,
    keystrokeCountRef, ticks, signals, changes>>

clientVars ==
  <<prompt, loading, error, cpc, logCall, logRequests, submitRequests, presses,
    emitted, sent, answers, handled, timerVars>>

vars == <<serverVars, clientVars>>

Slots == 1..NumSlots

(***************************************************************************)
(* String helpers (String.prototype.trim / toLowerCase / split)            *)
(***************************************************************************)
LowerChar(c) ==
  CASE c = "A" -> "a"
    [] c = "B" -> "b"
    [] c = "Z" -> "z"
    [] OTHER -> c

toLowerCase(s) == [i \in 1..Len(s) |-> LowerChar(s[i])]

RECURSIVE trimStart(_)
trimStart(s) ==
  IF s # <<>> /\ Head(s) = " " THEN trimStart(Tail(s)) ELSE s

RECURSIVE trimEnd(_)
trimEnd(s) ==
  IF s # <<>> /\ s[Len(s)] = " " THEN trimEnd(SubSeq(s, 1, Len(s) - 1)) ELSE s

trim(s) == trimEnd(trimStart(s))

\* s.split(','): the pieces between the commas, in order
RECURSIVE splitAcc(_, _, _)
splitAcc(s, cur, acc) ==
  IF s = <<>> THEN Append(acc, cur)
  ELSE IF Head(s) = "," THEN splitAcc(Tail(s), <<>>, Append(acc, cur))
  ELSE splitAcc(Tail(s), Append(cur, Head(s)), acc)

split(s) == splitAcc(s, <<>>, <<>>)

isAuthorized(userId) ==
  LET normalizedUserId == toLowerCase(trim(userId))
      pieces == split(AUTHORIZED_USERIDS)
      authorizedIds == [i \in 1..Len(pieces) |-> toLowerCase(trim(pieces[i]))]
  IN \E i \in 1..Len(authorizedIds) : authorizedIds[i] = normalizedUserId

\* parseInt(process.env.MAX_REQUESTS_PER_USER || '50')
maxCap == MaxRequestsPerUser

(***************************************************************************)
(* Persistence adapter (SQLiteAdapter)                                     *)
(***************************************************************************)
\* SELECT * FROM users WHERE id = ?  -- <<>> is null, <<row>> is the row
getUser(userId) ==
  IF \E u \in users : u.id = userId
  THEN << CHOOSE u \in users : u.id = userId >>
  ELSE <<>>

\* the row createUser builds
newUser(userId) ==
  [id |-> userId, requestCount |-> 0, maxRequests |-> maxCap]

\* UPDATE users SET requestCount = requestCount + 1 WHERE id = ?
incremented(userId) ==
  { IF u.id = userId THEN [u EXCEPT !.requestCount = @ + 1] ELSE u : u \in users }

newId_Reused == Len(interactions) + 1

\* uuidv4(): an identifier no stored row has
newId == Len(interactions) + Len(events) + 1

(***************************************************************************)
(* Conversation window helpers                                             *)
(***************************************************************************)
\* Array.prototype.slice(start) with a negative start
slice(a, start) ==
  LET from == IF start < 0
              THEN (IF Len(a) + start < 0 THEN 0 ELSE Len(a) + start)
              ELSE (IF start > Len(a) THEN Len(a) ELSE start)
  IN SubSeq(a, from + 1, Len(a))

truncate_KeepsFirst(a) == IF Len(a) > 5 THEN SubSeq(a, 1, 5) ELSE a

\* "Keep only last 5 messages to manage context"
truncate(a) == IF Len(a) > 5 THEN slice(a, -5) ELSE a

hasConversation(userID) == userID \in DOMAIN conversations

\* conversations[userID] after `if (!conversations[userID]) ... = []`
window(userID) ==
  IF hasConversation(userID) THEN conversations[userID] ELSE <<>>

setConversation_All(userID, w) ==
  [k \in (DOMAIN conversations) \cup {userID} |-> w]

setConversation(userID, w) ==
  [k \in (DOMAIN conversations) \cup {userID} |->
     IF k = userID THEN w ELSE conversations[k]]

messages_WithoutSystem(conversationHistory) == conversationHistory

\* messages = [{role:'system', content: SYSTEM_PROMPT}, ...conversationHistory]
messages(conversationHistory) ==
  <<[role |-> "system", content |-> SYSTEM_PROMPT]>> \o conversationHistory

\* result.choices[0]?.message?.content || 'No response generated'
responseText(content) ==
  IF content = <<>> THEN <<"No response generated">> ELSE content

(***************************************************************************)
(* Requests in flight and responses                                        *)
(***************************************************************************)
\* a slot holds the locals of a /api/submit handler that waits for the
\* model; fresh tells whether it is the first submission after a reset
idle ==
  [pc |-> "idle", userID |-> <<>>, prompt |-> noPrompt, ctx |-> <<>>,
   fresh |-> FALSE]

\* a request that arrives is handled in the first slot that is not in use
free(r) ==
  /\ req[r].pc = "idle"
  /\ \A q \in Slots : q < r => req[q].pc # "idle"

noResponse == [op |-> "none", userID |-> <<>>, prompt |-> noPrompt, status |-> 0]

\* res.status(code).json(...), with the request it answers
answer(op, userID, promptSent, code) ==
  [op |-> op, userID |-> userID, prompt |-> promptSent, status |-> code]

\* the in-memory state of a gateway and a client that have just started, and
\* the interactions and events tables of a new database
InitButUsers ==
  /\ interactions = <<>>
  /\ events = <<>>
  /\ conversations = [k \in {} |-> <<>>]
  /\ req = [r \in Slots |-> idle]
  /\ resp = noResponse
  /\ submits = 0
  /\ succ = [u \in AllUserIDs |-> 0]
  /\ dropped = FALSE
  /\ afterReset = {}
  /\ prompt = <<>>
  /\ loading = FALSE
  /\ error = ""
  /\ cpc = "idle"
  /\ logCall = "none"
  /\ logRequests = 0
  /\ submitRequests = 0
  /\ presses = 0
  /\ emitted = <<>>
  /\ sent = <<>>
  /\ answers = <<>>
  /\ handled = 0
  /\ now = 1
  /\ isIdle = FALSE
  /\ lastActivityRef = 1
  /\ idleTimer = <<1 + IDLE_THRESHOLD>>
  /\ typingTimers = {}
  /\ typingTimerRef = 0
  /\ typingStartTimeRef = 0
  /\ keystrokeCountRef = 0
  /\ ticks = 0
  /\ signals = 0
  /\ changes = 0

\* a gateway started on a new database
Init ==
  /\ users = {}
  /\ InitButUsers

\* the users tables a gateway can find when it starts on a database of
\* earlier runs: at most one row per identifier, for identifiers that are or
\* were on the allow-list, with counts up to the ceiling
StoredUsers ==
  { t \in SUBSET { [id |-> i, requestCount |-> c, maxRequests |-> maxCap] :
                     i \in UserIDs \ {<<>>}, c \in 0..maxCap } :
      \A u, v \in t : u.id = v.id => u = v }

\* a gateway started on a database of earlier runs
InitStored ==
  /\ users \in StoredUsers
  /\ InitButUsers

(***************************************************************************)
(* POST /api/check-user                                                    *)
(***************************************************************************)
capacityReached_OffByOne(user) == user.requestCount > maxCap

\* user.requestCount >= maxCap
capacityReached(user) == user.requestCount >= maxCap

CheckUser_ResetsCount(userID, writeOk) ==
  /\ IF userID = <<>>
     THEN resp' = answer("check-user", userID, noPrompt, 400) /\ users' = users
     ELSE IF ~isAuthorized(userID)
     THEN resp' = answer("check-user", userID, noPrompt, 401) /\ users' = users
     ELSE IF getUser(userID) = <<>> /\ ~writeOk
     THEN resp' = answer("check-user", userID, noPrompt, 500) /\ users' = users
     ELSE /\ users' = { u \in users : u.id # userID } \cup {newUser(userID)}
          /\ resp' = answer("check-user", userID, noPrompt, 200)
  /\ UNCHANGED <<interactions, events, conversations, req, submits, succ,
                 dropped, afterReset, clientVars>>

CheckUser_CreatesFirst(userID, writeOk) ==
  /\ users' = IF userID # <<>> /\ getUser(userID) = <<>> /\ writeOk
              THEN users \cup {newUser(userID)} ELSE users
  /\ resp' = IF userID = <<>> THEN answer("check-user", userID, noPrompt, 400)
             ELSE IF ~isAuthorized(userID)
             THEN answer("check-user", userID, noPrompt, 401)
             ELSE IF getUser(userID) = <<>> /\ ~writeOk
             THEN answer("check-user", userID, noPrompt, 500)
             ELSE IF getUser(userID) # <<>> /\ capacityReached(getUser(userID)[1])
             THEN answer("check-user", userID, noPrompt, 403)
             ELSE answer("check-user", userID, noPrompt, 200)
  /\ UNCHANGED <<interactions, events, conversations, req, submits, succ,
                 dropped, afterReset, clientVars>>

\* the whole handler; writeOk is whether the INSERT of createUser succeeds
CheckUser(userID, writeOk) ==
  /\ IF userID = <<>>
     THEN resp' = answer("check-user", userID, noPrompt, 400) /\ users' = users
     ELSE IF ~isAuthorized(userID)
     THEN resp' = answer("check-user", userID, noPrompt, 401) /\ users' = users
     ELSE IF getUser(userID) = <<>> /\ ~writeOk
     THEN resp' = answer("check-user", userID, noPrompt, 500) /\ users' = users
     ELSE LET user == IF getUser(userID) = <<>> THEN newUser(userID)
                      ELSE getUser(userID)[1]
          IN /\ users' = users \cup {user}
             /\ resp' = IF capacityReached(user)
                        THEN answer("check-user", userID, noPrompt, 403)
                        ELSE answer("check-user", userID, noPrompt, 200)
  /\ UNCHANGED <<interactions, events, conversations, req, submits, succ,
                 dropped, afterReset, clientVars>>

(***************************************************************************)
(* POST /api/submit                                                        *)
(***************************************************************************)
withUserTurn_Replaces(w, promptSent) ==
  << [role |-> "user", content |-> promptSent] >>

\* conversations[userID].push({role:'user', content: prompt})
withUserTurn(w, promptSent) ==
  Append(w, [role |-> "user", content |-> promptSent])

SubmitStart_CreatesUser(r, userID, promptSent) ==
  /\ free(r)
  /\ IF promptSent = noPrompt \/ userID = <<>>
     THEN /\ resp' = answer("submit", userID, promptSent, 400)
          /\ UNCHANGED <<req, submits, conversations, dropped, afterReset,
                         users>>
     ELSE IF ~isAuthorized(userID)
     THEN /\ resp' = answer("submit", userID, promptSent, 401)
          /\ UNCHANGED <<req, submits, conversations, dropped, afterReset,
                         users>>
     ELSE IF getUser(userID) # <<>> /\ capacityReached(getUser(userID)[1])
     THEN /\ resp' = answer("submit", userID, promptSent, 403)
          /\ UNCHANGED <<req, submits, conversations, dropped, afterReset,
                         users>>
     ELSE LET pushed == withUserTurn(window(userID), promptSent)
              w == truncate(pushed)
          IN /\ users' = IF getUser(userID) = <<>>
                         THEN users \cup {newUser(userID)} ELSE users
             /\ conversations' = setConversation(userID, w)
             /\ submits' = submits + 1
             /\ dropped' = (dropped \/ Len(pushed) > 5)
             /\ afterReset' = afterReset \ {userID}
             /\ resp' = noResponse
             /\ req' = [req EXCEPT ![r] =
                  [pc |-> "model", userID |-> userID, prompt |-> promptSent,
                   ctx |-> messages(w), fresh |-> userID \in afterReset]]
  /\ UNCHANGED <<interactions, events, succ, clientVars>>

SubmitStart_CapacityFirst(r, userID, promptSent) ==
  /\ free(r)
  /\ IF promptSent = noPrompt \/ userID = <<>>
     THEN /\ resp' = answer("submit", userID, promptSent, 400)
          /\ UNCHANGED <<req, submits, conversations, dropped, afterReset>>
     ELSE IF getUser(userID) # <<>> /\ capacityReached(getUser(userID)[1])
     THEN /\ resp' = answer("submit", userID, promptSent, 403)
          /\ UNCHANGED <<req, submits, conversations, dropped, afterReset>>
     ELSE IF ~isAuthorized(userID)
     THEN /\ resp' = answer("submit", userID, promptSent, 401)
          /\ UNCHANGED <<req, submits, conversations, dropped, afterReset>>
     ELSE IF getUser(userID) = <<>>
     THEN /\ resp' = answer("submit", userID, promptSent, 404)
          /\ UNCHANGED <<req, submits, conversations, dropped, afterReset>>
     ELSE LET pushed == withUserTurn(window(userID), promptSent)
              w == truncate(pushed)
          IN /\ conversations' = setConversation(userID, w)
             /\ submits' = submits + 1
             /\ dropped' = (dropped \/ Len(pushed) > 5)
             /\ afterReset' = afterReset \ {userID}
             /\ resp' = noResponse
             /\ req' = [req EXCEPT ![r] =
                  [pc |-> "model", userID |-> userID, prompt |-> promptSent,
                   ctx |-> messages(w), fresh |-> userID \in afterReset]]
  /\ UNCHANGED <<users, interactions, events, succ, clientVars>>

\* from the entry of the handler to `await aiService.generateResponse(...)`
SubmitStart(r, userID, promptSent) ==
  /\ free(r)
  /\ IF promptSent = noPrompt \/ userID = <<>>
     THEN /\ resp' = answer("submit", userID, promptSent, 400)
          /\ UNCHANGED <<req, submits, conversations, dropped, afterReset>>
     ELSE IF ~isAuthorized(userID)
     THEN /\ resp' = answer("submit", userID, promptSent, 401)
          /\ UNCHANGED <<req, submits, conversations, dropped, afterReset>>
     ELSE IF getUser(userID) = <<>>
     THEN /\ resp' = answer("submit", userID, promptSent, 404)
          /\ UNCHANGED <<req, submits, conversations, dropped, afterReset>>
     ELSE IF capacityReached(getUser(userID)[1])
     THEN /\ resp' = answer("submit", userID, promptSent, 403)
          /\ UNCHANGED <<req, submits, conversations, dropped, afterReset>>
     ELSE LET pushed == withUserTurn(window(userID), promptSent)
              w == truncate(pushed)
          IN /\ conversations' = setConversation(userID, w)
             /\ submits' = submits + 1
             /\ dropped' = (dropped \/ Len(pushed) > 5)
             /\ afterReset' = afterReset \ {userID}
             /\ resp' = noResponse
             /\ req' = [req EXCEPT ![r] =
                  [pc |-> "model", userID |-> userID, prompt |-> promptSent,
                   ctx |-> messages(w), fresh |-> userID \in afterReset]]
  /\ UNCHANGED <<users, interactions, events, succ, clientVars>>

\* conversations[userID].push({role:'assistant', content: aiResponse})
withReply(w, aiResponse) ==
  Append(w, [role |-> "assistant", content |-> aiResponse])

\* the row createInteraction inserts (the columns no handler reads back,
\* sessionId, type, model, timestamp and responseTime, are left out)
interactionRow(userID, promptSent, aiResponse, history) ==
  [id |-> newId, userId |-> userID, prompt |-> promptSent,
   response |-> aiResponse, conversationHistory |-> history]

createInteraction_Twice(row, insertOk) ==
  IF insertOk THEN Append(Append(interactions, row), row) ELSE interactions

\* the interactions table after createInteraction: the INSERT adds the row
\* or throws and adds nothing
createInteraction(row, insertOk) ==
  IF insertOk THEN Append(interactions, row) ELSE interactions

SubmitModelReturn_RollsBack(r, outcome, updateOk, insertOk) ==
  /\ req[r].pc = "model"
  /\ req' = [req EXCEPT ![r] = idle]
  /\ LET userID == req[r].userID
         aiResponse == responseText(modelContent(outcome, req[r].ctx))
         w == withReply(window(userID), aiResponse)
     IN IF outcome = "throw"
        THEN /\ resp' = answer("submit", userID, req[r].prompt, 500)
             /\ conversations' =
                  setConversation(userID,
                    SelectSeq(window(userID),
                              LAMBDA t : t.content # req[r].prompt))
             /\ UNCHANGED <<users, interactions, succ>>
        ELSE /\ conversations' = setConversation(userID, w)
             /\ users' = IF updateOk THEN incremented(userID) ELSE users
             /\ interactions' =
                  IF updateOk
                  THEN createInteraction(
                         interactionRow(userID, req[r].prompt, aiResponse, w),
                         insertOk)
                  ELSE interactions
             /\ resp' = IF updateOk /\ insertOk
                        THEN answer("submit", userID, req[r].prompt, 200)
                        ELSE answer("submit", userID, req[r].prompt, 500)
             /\ succ' = IF updateOk /\ insertOk
                        THEN [succ EXCEPT ![userID] = @ + 1]
                        ELSE succ
  /\ UNCHANGED <<events, submits, dropped, afterReset, clientVars>>

SubmitModelReturn_RecordFirst(r, outcome, updateOk, insertOk) ==
  /\ req[r].pc = "model"
  /\ req' = [req EXCEPT ![r] = idle]
  /\ LET userID == req[r].userID
         aiResponse == responseText(modelContent(outcome, req[r].ctx))
         w == withReply(window(userID), aiResponse)
     IN IF outcome = "throw"
        THEN /\ resp' = answer("submit", userID, req[r].prompt, 500)
             /\ UNCHANGED <<conversations, users, interactions, succ>>
        ELSE /\ conversations' = setConversation(userID, w)
             /\ interactions' =
                  createInteraction(
                    interactionRow(userID, req[r].prompt, aiResponse, w),
                    insertOk)
             /\ users' = IF insertOk /\ updateOk
                         THEN incremented(userID) ELSE users
             /\ resp' = IF updateOk /\ insertOk
                        THEN answer("submit", userID, req[r].prompt, 200)
                        ELSE answer("submit", userID, req[r].prompt, 500)
             /\ succ' = IF updateOk /\ insertOk
                        THEN [succ EXCEPT ![userID] = @ + 1]
                        ELSE succ
  /\ UNCHANGED <<events, submits, dropped, afterReset, clientVars>>

\* from the return of generateResponse to the response; outcome is what the
\* model collaborator did, updateOk whether the UPDATE of
\* incrementRequestCount succeeds and insertOk whether the INSERT of
\* createInteraction does
SubmitModelReturn(r, outcome, updateOk, insertOk) ==
  /\ req[r].pc = "model"
  /\ req' = [req EXCEPT ![r] = idle]
  /\ LET userID == req[r].userID
         aiResponse == responseText(modelContent(outcome, req[r].ctx))
         w == withReply(window(userID), aiResponse)
     IN IF outcome = "throw"
        THEN /\ resp' = answer("submit", userID, req[r].prompt, 500)
             /\ UNCHANGED <<conversations, users, interactions, succ>>
        ELSE /\ conversations' = setConversation(userID, w)
             /\ users' = IF updateOk THEN incremented(userID) ELSE users
             /\ interactions' =
                  IF updateOk
                  THEN createInteraction(
                         interactionRow(userID, req[r].prompt, aiResponse, w),
                         insertOk)
                  ELSE interactions
             /\ resp' = IF updateOk /\ insertOk
                        THEN answer("submit", userID, req[r].prompt, 200)
                        ELSE answer("submit", userID, req[r].prompt, 500)
             /\ succ' = IF updateOk /\ insertOk
                        THEN [succ EXCEPT ![userID] = @ + 1]
                        ELSE succ
  /\ UNCHANGED <<events, submits, dropped, afterReset, clientVars>>

(***************************************************************************)
(* POST /api/reset and POST /api/log-event                                 *)
(***************************************************************************)
\* the row createEvent inserts (sessionId and timestamp are left out)
eventRow(userID, eventType, data) ==
  [id |-> newId, userId |-> userID, eventType |-> eventType, data |-> data]

\* conversations[userID] = []
cleared(userID) == setConversation(userID, <<>>)

Reset_AlsoCount(userID, writeOk) ==
  /\ IF userID = <<>>
     THEN /\ resp' = answer("reset", userID, noPrompt, 400)
          /\ UNCHANGED <<conversations, events, afterReset, users>>
     ELSE IF ~isAuthorized(userID)
     THEN /\ resp' = answer("reset", userID, noPrompt, 401)
          /\ UNCHANGED <<conversations, events, afterReset, users>>
     ELSE /\ conversations' = cleared(userID)
          /\ users' = { IF u.id = userID THEN [u EXCEPT !.requestCount = 0] ELSE u :
                        u \in users }
          /\ IF writeOk
             THEN /\ events' = Append(events, eventRow(userID, "contextReset", "{}"))
                  /\ afterReset' = afterReset \cup {userID}
                  /\ resp' = answer("reset", userID, noPrompt, 200)
             ELSE /\ events' = events
                  /\ afterReset' = afterReset
                  /\ resp' = answer("reset", userID, noPrompt, 500)
  /\ UNCHANGED <<interactions, req, submits, succ, dropped, clientVars>>

\* the whole handler; writeOk is whether the INSERT of createEvent succeeds
Reset(userID, writeOk) ==
  /\ IF userID = <<>>
     THEN /\ resp' = answer("reset", userID, noPrompt, 400)
          /\ UNCHANGED <<conversations, events, afterReset>>
     ELSE IF ~isAuthorized(userID)
     THEN /\ resp' = answer("reset", userID, noPrompt, 401)
          /\ UNCHANGED <<conversations, events, afterReset>>
     ELSE /\ conversations' = cleared(userID)
          /\ IF writeOk
             THEN /\ events' = Append(events, eventRow(userID, "contextReset", "{}"))
                  /\ afterReset' = afterReset \cup {userID}
                  /\ resp' = answer("reset", userID, noPrompt, 200)
             ELSE /\ events' = events
                  /\ afterReset' = afterReset
                  /\ resp' = answer("reset", userID, noPrompt, 500)
  /\ UNCHANGED <<users, interactions, req, submits, succ, dropped, clientVars>>

\* data || {}
dataOrEmpty(data) == IF data = "undefined" THEN "{}" ELSE data

\* what the handler does to the server; writeOk is whether the INSERT of
\* createEvent succeeds
logEventHandler_ChecksAllowList(userID, eventType, data, writeOk) ==
  /\ IF userID = <<>> \/ eventType = ""
     THEN /\ resp' = answer("log-event", userID, noPrompt, 400)
          /\ events' = events
     ELSE IF ~isAuthorized(userID)
     THEN /\ resp' = answer("log-event", userID, noPrompt, 401)
          /\ events' = events
     ELSE IF writeOk
     THEN /\ events' =
               Append(events, eventRow(userID, eventType, dataOrEmpty(data)))
          /\ resp' = answer("log-event", userID, noPrompt, 200)
     ELSE /\ events' = events
          /\ resp' = answer("log-event", userID, noPrompt, 500)
  /\ UNCHANGED <<users, interactions, conversations, req, submits, succ,
                 dropped, afterReset>>

logEventHandler(userID, eventType, data, writeOk) ==
  /\ IF userID = <<>> \/ eventType = ""
     THEN /\ resp' = answer("log-event", userID, noPrompt, 400)
          /\ events' = events
     ELSE IF writeOk
     THEN /\ events' = Append(events, eventRow(userID, eventType, dataOrEmpty(data)))
          /\ resp' = answer("log-event", userID, noPrompt, 200)
     ELSE /\ events' = events
          /\ resp' = answer("log-event", userID, noPrompt, 500)
  /\ UNCHANGED <<users, interactions, conversations, req, submits, succ,
                 dropped, afterReset>>

\* the whole handler, for a request of any sender
LogEvent(userID, eventType, data, writeOk) ==
  /\ logEventHandler(userID, eventType, data, writeOk)
  /\ UNCHANGED clientVars

(***************************************************************************)
(* Spec: the gateway under check-user, submit and reset requests, valid or *)
(* not, every outcome of the model call and of the storage writes          *)
(***************************************************************************)
Next ==
  \/ \E u \in UserIDs, ok \in BOOLEAN : CheckUser(u, ok)
  \/ \E r \in Slots, u \in UserIDs, p \in {noPrompt, promptText(submits + 1)} :
        SubmitStart(r, u, p) /\ submits' <= MaxSubmits
  \/ \E r \in Slots, o \in ModelOutcomes, uok \in BOOLEAN, iok \in BOOLEAN :
        SubmitModelReturn(r, o, uok, iok)
  \/ \E u \in UserIDs, ok \in BOOLEAN : Reset(u, ok) /\ Len(events') <= MaxEvents

Spec == Init /\ [][Next]_vars

(***************************************************************************)
(* SpecStored: check-user and submit requests, valid or not, to a gateway  *)
(* that starts on a database of earlier runs; the model call replies       *)
(***************************************************************************)
NextStored ==
  \/ \E u \in UserIDs : CheckUser(u, TRUE)
  \/ \E r \in Slots, u \in UserIDs, p \in {noPrompt, promptText(submits + 1)} :
        SubmitStart(r, u, p) /\ submits' <= MaxSubmits
  \/ \E r \in Slots : SubmitModelReturn(r, "reply", TRUE, TRUE)

SpecStored == InitStored /\ [][NextStored]_vars

(***************************************************************************)
(* SpecChat: one user who checks in, submits and resets; the model call    *)
(* throws or replies and the UPDATE of the request count may fail.  Longer *)
(* conversations than Spec reaches.                                        *)
(***************************************************************************)
chatUser == <<"A", "1">>

NextChat ==
  \/ CheckUser(chatUser, TRUE)
  \/ \E r \in Slots :
        SubmitStart(r, chatUser, promptText(submits + 1))
          /\ submits' <= MaxChatSubmits
  \/ \E r \in Slots, o \in {"throw", "reply"}, uok \in BOOLEAN :
        SubmitModelReturn(r, o, uok, TRUE)
  \/ \E ok \in BOOLEAN : Reset(chatUser, ok) /\ Len(events') <= MaxChatEvents

SpecChat == Init /\ [][NextChat]_vars

(***************************************************************************)
(* SpecWindow: the conversation of one user who checks in and submits,     *)
(* without resets, with all slots in use                                   *)
(***************************************************************************)
NextWindow ==
  \/ CheckUser(chatUser, TRUE)
  \/ \E r \in Slots :
        SubmitStart(r, chatUser, promptText(submits + 1))
          /\ submits' <= MaxChatSubmits
  \/ \E r \in Slots, o \in {"throw", "reply"}, uok \in BOOLEAN :
        SubmitModelReturn(r, o, uok, TRUE)

SpecWindow == Init /\ [][NextWindow]_vars

(***************************************************************************)
(* SpecPair: two allow-listed users who check in, submit and reset; the    *)
(* model call throws or replies and every write succeeds.  The prompts of  *)
(* the first user carry even numbers and those of the second odd ones, so  *)
(* that a turn tells who sent it.                                          *)
(***************************************************************************)
pairUsers == { chatUser, <<"B", "2">> }

promptOf(userID, n) ==
  promptText(IF userID = chatUser THEN 2 * n ELSE 2 * n + 1)

NextPair ==
  \/ \E u \in pairUsers : CheckUser(u, TRUE)
  \/ \E r \in Slots, u \in pairUsers :
        SubmitStart(r, u, promptOf(u, submits + 1))
          /\ submits' <= MaxPairSubmits
  \/ \E r \in Slots, o \in {"throw", "reply"} :
        SubmitModelReturn(r, o, TRUE, TRUE)
  \/ \E u \in pairUsers :
        Reset(u, TRUE) /\ Len(events') <= MaxPairEvents

SpecPair == Init /\ [][NextPair]_vars

(***************************************************************************)
(* SpecSpellings: check-user and submit requests that spell one allow-list *)
(* entry in several ways; every model call replies and every write         *)
(* succeeds                                                                *)
(***************************************************************************)
NextSpellings ==
  \/ \E u \in Spellings : CheckUser(u, TRUE)
  \/ \E r \in Slots, u \in Spellings :
        SubmitStart(r, u, promptText(submits + 1))
          /\ submits' <= MaxChatSubmits
  \/ \E r \in Slots : SubmitModelReturn(r, "reply", TRUE, TRUE)

SpecSpellings == Init /\ [][NextSpellings]_vars

(***************************************************************************)
(* SpecEvents: the events table under log-event and reset requests         *)
(***************************************************************************)
NextEvents ==
  \/ \E u \in UserIDs, t \in EventTypes, d \in EventData, ok \in BOOLEAN :
        LogEvent(u, t, d, ok) /\ Len(events') <= MaxLoggedEvents
  \/ \E u \in UserIDs, ok \in BOOLEAN :
        Reset(u, ok) /\ Len(events') <= MaxLoggedEvents

SpecEvents == Init /\ [][NextEvents]_vars

(***************************************************************************)
(* SpecForeignKey: log-event requests, valid or not, for identifiers with  *)
(* and without a user record.  The events table declares FOREIGN KEY       *)
(* (userId) REFERENCES users(id); whether SQLite enforces it depends on    *)
(* the build of the driver, so both are outcomes of an INSERT.             *)
(***************************************************************************)
\* whether the INSERT of an event row of userID succeeds: enforced is whether
\* the foreign key is enforced, diskOk whether the write succeeds otherwise
insertEventOk(userID, enforced, diskOk) ==
  diskOk /\ (enforced => getUser(userID) # <<>>)

NextForeignKey ==
  \/ \E u \in UserIDs : CheckUser(u, TRUE)
  \/ \E u \in UserIDs, t \in EventTypes, d \in EventData,
        enforced \in BOOLEAN, diskOk \in BOOLEAN :
        LogEvent(u, t, d, insertEventOk(u, enforced, diskOk))
          /\ Len(events') <= MaxLoggedEvents

SpecForeignKey == Init /\ [][NextForeignKey]_vars

(***************************************************************************)
(* The text and column encodings of createInteraction and createEvent      *)
(***************************************************************************)
\* JSON.stringify of a conversationHistory: the text, as its tokens
RECURSIVE stringifyTurns(_)
stringifyTurns(history) ==
  IF history = <<>> THEN <<>>
  ELSE <<"{", Head(history).role, Head(history).content, "}">>
         \o stringifyTurns(Tail(history))

stringifyHistory(history) == <<"[">> \o stringifyTurns(history) \o <<"]">>

\* JSON.parse of such a text
parseHistory(text) ==
  [i \in 1..((Len(text) - 2) \div 4) |->
     [role |-> text[4 * i - 1], content |-> text[4 * i]]]

\* JSON.stringify of an event payload, an object given as the sequence of
\* its <<key, value>> members
RECURSIVE stringifyMembers(_)
stringifyMembers(data) ==
  IF data = <<>> THEN <<>>
  ELSE <<Head(data)[1], ":", Head(data)[2]>> \o stringifyMembers(Tail(data))

stringifyData(data) == <<"{">> \o stringifyMembers(data) \o <<"}">>

parseData(text) ==
  [i \in 1..((Len(text) - 2) \div 3) |-> <<text[3 * i - 1], text[3 * i + 1]>>]

\* interaction.metadata.tokenCount || null: an optional count is <<>> when
\* absent and <<n>> when present; the column is <<>> when NULL
tokenCountColumn(tokenCount) ==
  IF tokenCount = <<>> \/ tokenCount[1] = 0 THEN <<>> ELSE tokenCount

\* reading a nullable INTEGER column: NULL is an absent count
readTokenCount(column) == column

\* the columns of the interactions row that hold the structured fields
storedInteraction(history, responseTime, tokenCount) ==
  [id |-> newId,
   conversationHistory |-> stringifyHistory(history),
   responseTime |-> responseTime,
   tokenCount |-> tokenCountColumn(tokenCount)]

\* what decoding an interactions row yields
decodedInteraction(row) ==
  [conversationHistory |-> parseHistory(row.conversationHistory),
   responseTime |-> row.responseTime,
   tokenCount |-> readTokenCount(row.tokenCount)]

\* the columns of the events row that hold the payload
storedEvent(data) == [id |-> newId, data |-> stringifyData(data)]

\* the context snapshots, latencies, token counts and payloads written
Turns ==
  { [role |-> "user", content |-> promptText(1)],
    [role |-> "assistant", content |-> <<"r", 1>>] }

Histories ==
  { h \in UNION { [1..n -> Turns] : n \in 1..MaxHistory } : TRUE }

ResponseTimes == {0, 1}

TokenCounts == {<<>>} \cup { <<n>> : n \in 0..MaxTokenCount }

Payloads == { <<>>, << <<"k", 1>> >>, << <<"k", 1>>, <<"j", 0>> >> }

\* SQLiteAdapter.createInteraction, for the fields that are encoded
WriteInteraction(history, responseTime, tokenCount) ==
  /\ interactions' =
       Append(interactions,
              storedInteraction(history, responseTime, tokenCount))
  /\ UNCHANGED <<users, events, conversations, req, resp, submits, succ,
                 dropped, afterReset, clientVars>>

\* SQLiteAdapter.createEvent, for the payload
WriteEvent(data) ==
  /\ events' = Append(events, storedEvent(data))
  /\ UNCHANGED <<users, interactions, conversations, req, resp, submits,
                 succ, dropped, afterReset, clientVars>>

(***************************************************************************)
(* SpecRoundTrip: rows written through the adapter                         *)
(***************************************************************************)
NextRoundTrip ==
  \/ \E h \in Histories, t \in ResponseTimes, c \in TokenCounts :
        WriteInteraction(h, t, c) /\ Len(interactions') <= MaxStoredRows
  \/ \E d \in Payloads : WriteEvent(d) /\ Len(events') <= MaxStoredRows

SpecRoundTrip == Init /\ [][NextRoundTrip]_vars

(***************************************************************************)
(* SpecRecords: the interactions and events tables under the requests of   *)
(* one user: check-user, submit, reset and log-event; the INSERT of an     *)
(* interaction or of a logged event may fail                               *)
(***************************************************************************)
NextRecords ==
  \/ CheckUser(chatUser, TRUE)
  \/ \E r \in Slots :
        SubmitStart(r, chatUser, promptText(submits + 1))
          /\ submits' <= MaxRecordSubmits
  \/ \E r \in Slots, iok \in BOOLEAN :
        SubmitModelReturn(r, "reply", TRUE, iok)
  \/ \E ok \in BOOLEAN :
        LogEvent(chatUser, "typing", "{k:1}", ok)
          /\ Len(events') <= MaxRecordEvents
  \/ Reset(chatUser, TRUE) /\ Len(events') <= MaxRecordEvents

SpecRecords == Init /\ [][NextRecords]_vars

(***************************************************************************)
(* The chat client: the clock, apiService.logEvent, idle detection         *)
(***************************************************************************)
\* apiService.logEvent({eventType, data}): the call is recorded; logEvent
\* sends its one request to /api/log-event before it returns to the caller
logged(eventType, data) ==
  Append(emitted, [eventType |-> eventType, data |-> data])

\* time passes; a timer whose time has come may fire later than it is due
Tick(d) ==
  /\ now' = now + d
  /\ ticks' = ticks + 1
  /\ UNCHANGED <<prompt, loading, error, cpc, logCall, logRequests,
                 submitRequests, sent, answers, presses, emitted, isIdle,
                 lastActivityRef, idleTimer, typingTimers, typingTimerRef,
                 typingStartTimeRef, keystrokeCountRef, signals, changes,
                 handled, serverVars>>

ActivitySignal_KeepsTimer ==
  /\ signals' = signals + 1
  /\ lastActivityRef' = now
  /\ IF isIdle
     THEN /\ isIdle' = FALSE
          /\ emitted' = logged("idleEnd", [timestamp |-> now])
          /\ logRequests' = logRequests + 1
     ELSE UNCHANGED <<isIdle, emitted, logRequests>>
  /\ idleTimer' = IF idleTimer = <<>> THEN <<now + IDLE_THRESHOLD>> ELSE idleTimer
  /\ UNCHANGED <<prompt, loading, error, cpc, logCall, submitRequests, sent,
                 answers, presses, now, typingTimers, typingTimerRef,
                 typingStartTimeRef, keystrokeCountRef, ticks, changes,
                 handled, serverVars>>

\* resetIdleTimer as the listener of mousedown, keydown, scroll and touchstart
ActivitySignal ==
  /\ signals' = signals + 1
  /\ lastActivityRef' = now
  /\ IF isIdle
     THEN /\ isIdle' = FALSE
          /\ emitted' = logged("idleEnd", [timestamp |-> now])
          /\ logRequests' = logRequests + 1
     ELSE UNCHANGED <<isIdle, emitted, logRequests>>
  /\ idleTimer' = <<now + IDLE_THRESHOLD>>
  /\ UNCHANGED <<prompt, loading, error, cpc, logCall, submitRequests, sent,
                 answers, presses, now, typingTimers, typingTimerRef,
                 typingStartTimeRef, keystrokeCountRef, ticks, changes,
                 handled, serverVars>>

\* the callback of the idle timer
IdleTimerFires ==
  /\ idleTimer # <<>>
  /\ now >= idleTimer[1]
  /\ idleTimer' = <<>>
  /\ IF ~isIdle
     THEN /\ isIdle' = TRUE
          /\ emitted' = logged("idleStart", [timestamp |-> now])
          /\ logRequests' = logRequests + 1
     ELSE UNCHANGED <<isIdle, emitted, logRequests>>
  /\ UNCHANGED <<prompt, loading, error, cpc, logCall, submitRequests, sent,
                 answers, presses, now, lastActivityRef, typingTimers,
                 typingTimerRef, typingStartTimeRef, keystrokeCountRef, ticks,
                 signals, changes, handled, serverVars>>

(***************************************************************************)
(* The response pane: handleResponseScroll                                 *)
(***************************************************************************)
\* a JavaScript number: a finite one with its value, or NaN, Infinity or
\* -Infinity (value 0)
finite(n) == [kind |-> "finite", value |-> n]

notFinite(kind) == [kind |-> kind, value |-> 0]

\* Math.round((a / b) * 100) for integers a and b >= 0: 0 / 0 is NaN, a / 0
\* is Infinity or -Infinity, and Math.round keeps all three; it rounds a
\* half up
roundedPercent(a, b) ==
  IF b = 0
  THEN IF a = 0 THEN notFinite("NaN")
       ELSE IF a > 0 THEN notFinite("Infinity")
       ELSE notFinite("-Infinity")
  ELSE finite((200 * a + b) \div (2 * b))

\* x || 0: NaN and 0 are falsy, every other number is kept
orZero(x) ==
  IF x.kind = "NaN" \/ (x.kind = "finite" /\ x.value = 0)
  THEN finite(0) ELSE x

\* the data of the responseScroll event (the timestamp is left out)
scrollData(scrollTop, scrollHeight, clientHeight) ==
  [scrollPercentage |->
     orZero(roundedPercent(scrollTop, scrollHeight - clientHeight)),
   scrollTop |-> scrollTop,
   scrollHeight |-> scrollHeight]

\* the whole handler, for the scroll position and the sizes of the pane
handleResponseScroll(scrollTop, scrollHeight, clientHeight) ==
  /\ emitted' =
       logged("responseScroll",
              scrollData(scrollTop, scrollHeight, clientHeight))
  /\ logRequests' = logRequests + 1
  /\ UNCHANGED <<prompt, loading, error, cpc, logCall, submitRequests, sent,
                 answers, presses, handled, timerVars, serverVars>>

(***************************************************************************)
(* SpecScroll: scroll events of the response pane for every scroll         *)
(* position and every pair of sizes with scrollHeight >= clientHeight      *)
(***************************************************************************)
NextScroll ==
  \E scrollTop \in 0..MaxScrollTop, scrollHeight \in 1..MaxScrollHeight :
    \E clientHeight \in 1..scrollHeight :
      /\ handleResponseScroll(scrollTop, scrollHeight, clientHeight)
      /\ Len(emitted') <= MaxScrolls

SpecScroll == Init /\ [][NextScroll]_vars

(***************************************************************************)
(* SpecIdle: one mounted view under activity signals and the idle timer    *)
(***************************************************************************)
NextIdle ==
  \/ \E d \in Durations : Tick(d) /\ ticks' <= MaxTicks
  \/ ActivitySignal /\ signals' <= MaxSignals
  \/ IdleTimerFires

SpecIdle == Init /\ [][NextIdle]_vars

(***************************************************************************)
(* The chat client: ChatInterface.handleSubmit and APIService.logEvent     *)
(***************************************************************************)
\* clearTimeout(id): the timer with that id is no longer pending
clearTimeout(timers, id) == { t \in timers : t.id # id }

\* handlePromptChange, the change listener of the prompt field; the field
\* is disabled while loading
SetPrompt(text) ==
  /\ ~loading
  /\ text # prompt
  /\ prompt' = text
  /\ changes' = changes + 1
  /\ typingStartTimeRef' = IF typingStartTimeRef = 0 THEN now
                           ELSE typingStartTimeRef
  /\ keystrokeCountRef' = keystrokeCountRef + 1
  /\ LET cleared_ == IF typingTimerRef # 0
                      THEN clearTimeout(typingTimers, typingTimerRef)
                      ELSE typingTimers
         id == changes + 1
     IN /\ typingTimers' = cleared_ \cup
             {[id |-> id, due |-> now + TYPING_DELAY, inputLength |-> Len(text)]}
        /\ typingTimerRef' = id
  /\ UNCHANGED <<loading, error, cpc, logCall, logRequests, submitRequests,
                 sent, answers, presses, emitted, now, isIdle,
                 lastActivityRef, idleTimer, ticks, signals, handled,
                 serverVars>>

TypingTimerFires_KeepsCount(t) ==
  /\ t \in typingTimers
  /\ now >= t.due
  /\ typingTimers' = typingTimers \ {t}
  /\ IF typingStartTimeRef > 0
     THEN /\ emitted' = logged("typing",
                 [inputLength |-> t.inputLength,
                  timeInField |-> now - typingStartTimeRef,
                  keystrokeCount |-> keystrokeCountRef])
          /\ logRequests' = logRequests + 1
          /\ typingStartTimeRef' = 0
          /\ keystrokeCountRef' = keystrokeCountRef
     ELSE UNCHANGED <<emitted, logRequests, typingStartTimeRef,
                      keystrokeCountRef>>
  /\ UNCHANGED <<prompt, loading, error, cpc, logCall, submitRequests, sent,
                 answers, presses, now, isIdle, lastActivityRef, idleTimer,
                 typingTimerRef, ticks, signals, changes, handled,
                 serverVars>>

\* the callback of the typing timer t
TypingTimerFires(t) ==
  /\ t \in typingTimers
  /\ now >= t.due
  /\ typingTimers' = typingTimers \ {t}
  /\ IF typingStartTimeRef > 0
     THEN /\ emitted' = logged("typing",
                 [inputLength |-> t.inputLength,
                  timeInField |-> now - typingStartTimeRef,
                  keystrokeCount |-> keystrokeCountRef])
          /\ logRequests' = logRequests + 1
          /\ typingStartTimeRef' = 0
          /\ keystrokeCountRef' = 0
     ELSE UNCHANGED <<emitted, logRequests, typingStartTimeRef,
                      keystrokeCountRef>>
  /\ UNCHANGED <<prompt, loading, error, cpc, logCall, submitRequests, sent,
                 answers, presses, now, isIdle, lastActivityRef, idleTimer,
                 typingTimerRef, ticks, signals, changes, handled,
                 serverVars>>

(***************************************************************************)
(* SpecTyping: the prompt field under change events and the typing timer   *)
(***************************************************************************)
NextTyping ==
  \/ \E d \in Durations : Tick(d) /\ ticks' <= MaxTicks
  \/ \E t \in FieldTexts : SetPrompt(t) /\ changes' <= MaxChanges
  \/ \E t \in typingTimers : TypingTimerFires(t)

SpecTyping == Init /\ [][NextTyping]_vars

PressSubmit_LogsTrimmed ==
  /\ presses' = presses + 1
  /\ IF trim(prompt) = <<>> \/ loading
     THEN UNCHANGED <<loading, error, cpc, logCall, logRequests, emitted>>
     ELSE /\ loading' = TRUE
          /\ error' = ""
          /\ emitted' = logged("promptSubmit",
                 [promptText |-> trim(prompt), promptLength |-> Len(trim(prompt))])
          /\ logCall' = "pending"
          /\ logRequests' = logRequests + 1
          /\ cpc' = "awaitLog"
  /\ UNCHANGED <<prompt, submitRequests, sent, answers, timerVars, handled,
                 serverVars>>

\* handleSubmit from its entry to `await apiService.logEvent(...)`, where
\* logEvent has sent its request and waits for axios.post
PressSubmit ==
  /\ presses' = presses + 1
  /\ IF trim(prompt) = <<>> \/ loading
     THEN UNCHANGED <<loading, error, cpc, logCall, logRequests, emitted>>
     ELSE /\ loading' = TRUE
          /\ error' = ""
          /\ emitted' = logged("promptSubmit",
                 [promptText |-> prompt, promptLength |-> Len(prompt)])
          /\ logCall' = "pending"
          /\ logRequests' = logRequests + 1
          /\ cpc' = "awaitLog"
  /\ UNCHANGED <<prompt, submitRequests, sent, answers, timerVars, handled,
                 serverVars>>

LogCallSettles_Retries(ok) ==
  /\ logCall = "pending"
  /\ logCall' = IF ok THEN "acknowledged" ELSE "pending"
  /\ logRequests' = IF ok THEN logRequests ELSE logRequests + 1
  /\ UNCHANGED <<prompt, loading, error, cpc, submitRequests, sent, answers,
                 presses, emitted, timerVars, handled, serverVars>>

\* axios.post of the promptSubmit log call resolves or rejects; logEvent
\* catches the rejection and returns in both cases
LogCallSettles(ok) ==
  /\ logCall = "pending"
  /\ logCall' = IF ok THEN "acknowledged" ELSE "failed"
  /\ UNCHANGED <<prompt, loading, error, cpc, logRequests, submitRequests,
                 sent, answers, presses, emitted, timerVars, handled,
                 serverVars>>

\* handleSubmit after logEvent returned: apiService.submitPrompt(userID, prompt)
SendSubmit ==
  /\ cpc = "awaitLog"
  /\ logCall \in {"acknowledged", "failed"}
  /\ logCall' = "none"
  /\ submitRequests' = submitRequests + 1
  /\ sent' = Append(sent, prompt)
  /\ cpc' = "awaitSubmit"
  /\ UNCHANGED <<prompt, loading, error, logRequests, presses, emitted,
                 answers, timerVars, handled, serverVars>>

\* handleSubmit from the return of submitPrompt to its end; status is the
\* answer of /api/submit
SubmitSettles(status) ==
  /\ cpc = "awaitSubmit"
  /\ cpc' = "idle"
  /\ loading' = FALSE
  /\ answers' = Append(answers, status)
  /\ error' = IF status = 200 THEN error
              ELSE IF status = 403 THEN "limit" ELSE "generic"
  /\ logRequests' = IF status = 200 THEN logRequests + 1 ELSE logRequests
  /\ emitted' = IF status = 200
                THEN logged("responseView", [answered |-> Len(answers) + 1])
                ELSE emitted
  /\ UNCHANGED <<prompt, logCall, submitRequests, sent, presses, timerVars,
                 handled, serverVars>>

\* the network hands the oldest request of logEvent that it still holds to
\* the server, which handles it; the view always sends its userID and a data
\* object
DeliverLog(writeOk) ==
  /\ handled < logRequests
  /\ handled' = handled + 1
  /\ logEventHandler(chatUser, emitted[handled + 1].eventType, "{k:1}", writeOk)
  /\ UNCHANGED <<prompt, loading, error, cpc, logCall, logRequests,
                 submitRequests, presses, emitted, sent, answers, timerVars>>

\* the network loses that request
DropLog ==
  /\ handled < logRequests
  /\ handled' = handled + 1
  /\ UNCHANGED <<prompt, loading, error, cpc, logCall, logRequests,
                 submitRequests, presses, emitted, sent, answers, timerVars,
                 serverVars>>

NextClient ==
  \/ \E t \in FieldTexts : SetPrompt(t) /\ changes' <= MaxChanges
  \/ PressSubmit /\ presses' <= MaxPresses
  \/ \E ok \in BOOLEAN : LogCallSettles(ok)
  \/ SendSubmit
  \/ \E st \in {200, 403, 500} : SubmitSettles(st)

SpecClient == Init /\ [][NextClient]_vars

(***************************************************************************)
(* SpecLogging: the chat client, the network and /api/log-event            *)
(***************************************************************************)
NextLogging ==
  \/ \E t \in FieldTexts : SetPrompt(t) /\ changes' <= MaxChanges
  \/ PressSubmit /\ presses' <= MaxPresses
  \/ \E ok \in BOOLEAN : LogCallSettles(ok)
  \/ SendSubmit
  \/ \E st \in {200, 403, 500} : SubmitSettles(st)
  \/ \E ok \in BOOLEAN : DeliverLog(ok)
  \/ DropLog

SpecLogging == Init /\ [][NextLogging]_vars

(***************************************************************************)
(* Properties                                                              *)
(***************************************************************************)
\* the user record of userID holds a request count at or above the ceiling
atCeiling(userID) ==
  \E u \in users : u.id = userID /\ u.requestCount >= maxCap

\* this step started the model call of the submission in slot r
startsModelCall(r) == req[r].pc = "idle" /\ req'[r].pc = "model"

\* this step answered a request of kind op in the step the request arrived
answersOnArrival(op) == resp'.op = op /\ req' = req

\* the rows of the interactions table that belong to userID
interactionsOf(userID) ==
  { i \in 1..Len(interactions) : interactions[i].userId = userID }

\* C1: in every reachable state each user's stored requestCount is at most
\* the configured ceiling.
C1_CountWithinCeiling == \A u \in users : u.requestCount <= maxCap

\* C2: whenever no request is in flight, each user's stored requestCount
\* equals the number of that user's /api/submit calls answered with success.
C2_CountEqualsSuccesses ==
  (\A r \in Slots : req[r].pc = "idle") =>
     \A u \in users : u.requestCount = succ[u.id]

\* C3: a check-user request, or a submit request with a prompt, for a user
\* whose requestCount is at or above the ceiling is answered 403 and leaves the
\* users, the interaction and event records and the windows unchanged; no
\* model call is started for such a user.
C3_RejectedAtCeiling ==
  [][ /\ \A r \in Slots : startsModelCall(r) => ~atCeiling(req'[r].userID)
      /\ ( /\ answersOnArrival("submit") \/ answersOnArrival("check-user")
           /\ atCeiling(resp'.userID)
           /\ resp'.op = "submit" => resp'.prompt # noPrompt )
         => /\ resp'.status = 403
            /\ UNCHANGED <<users, interactions, events, conversations>> ]_vars

C3_Witness ==
  /\ resp.op = "submit"
  /\ resp.status = 403
  /\ atCeiling(resp.userID)
  /\ interactions # <<>>

\* C4: every conversation window, and every snapshot stored in an interaction
\* record, holds at most 5 turns.
C4_WindowAtMostFive ==
  /\ \A k \in DOMAIN conversations : Len(conversations[k]) <= 5
  /\ \A i \in 1..Len(interactions) : Len(interactions[i].conversationHistory) <= 5

\* C5: when the append of a user turn makes a window longer than 5, the window
\* afterwards is the last 5 turns of the appended sequence, in their order.
C5_TruncationKeepsLastFive ==
  [][ \A r \in Slots : startsModelCall(r) =>
        LET u == req'[r].userID
            before == Append(window(u), [role |-> "user", content |-> req'[r].prompt])
            after == conversations'[u]
        IN Len(before) > 5 =>
             /\ Len(after) = 5
             /\ \A i \in 1..5 : after[i] = before[Len(before) - 5 + i] ]_vars

C5_Witness ==
  /\ dropped
  /\ \E r \in Slots : req[r].pc = "model" /\ Len(req[r].ctx) = 6

\* C6: after a completed reset of a user and until the user's next submission
\* the window is empty, and the context that submission passes to the model is
\* the system instruction and exactly one turn.
C6_FreshContextAfterReset ==
  /\ \A u \in afterReset : window(u) = <<>>
  /\ \A r \in Slots : (req[r].pc = "model" /\ req[r].fresh) => Len(req[r].ctx) = 2

\* C7: a submit call answered with success has written exactly one interaction
\* record and a submit call answered with a failure has written none, so a
\* user's number of interaction records equals the user's number of successful
\* submissions.
C7_OneRecordPerSuccess ==
  /\ [](\A u \in UserIDs : Cardinality(interactionsOf(u)) = succ[u])
  /\ [][ resp'.op = "submit" =>
           IF resp'.status = 200
           THEN /\ Len(interactions') = Len(interactions) + 1
                /\ SubSeq(interactions', 1, Len(interactions)) = interactions
                /\ interactions'[Len(interactions')].userId = resp'.userID
                /\ interactions'[Len(interactions')].prompt = resp'.prompt
           ELSE interactions' = interactions ]_vars

C7_Witness ==
  /\ resp.op = "submit"
  /\ resp.status \in {400, 401, 403, 404, 500}
  /\ succ[chatUser] = 1
  /\ Cardinality(interactionsOf(chatUser)) = 1

\* C8: a check-user, submit or reset request whose identifier is not on the
\* allow-list changes no state (no user record, no window, no interaction or
\* event record) and is answered 401; when such a submit request also lacks
\* its prompt, the missing-field check, which comes first, answers it 400.
C8_UnauthorizedRejected ==
  [][ ( /\ answersOnArrival("check-user") \/ answersOnArrival("submit")
           \/ answersOnArrival("reset")
        /\ resp'.userID # <<>>
        /\ ~isAuthorized(resp'.userID) )
      => /\ resp'.status =
              IF resp'.op = "submit" /\ resp'.prompt = noPrompt THEN 400 ELSE 401
         /\ UNCHANGED <<users, interactions, events, conversations>> ]_vars

C8_Witness ==
  /\ resp.status = 401
  /\ resp.op = "reset"
  /\ users # {}
  /\ \E k \in DOMAIN conversations : conversations[k] # <<>>

\* C9: a reset leaves every user record, every request count and every
\* interaction record unchanged; it changes no window but the caller's, which
\* it empties, and it adds at most one event, a contextReset of the caller,
\* and exactly one when it succeeds.
C9_ResetFrame ==
  [][ resp'.op = "reset" =>
        /\ UNCHANGED <<users, interactions, req, succ>>
        /\ DOMAIN conversations' \subseteq DOMAIN conversations \cup {resp'.userID}
        /\ \A k \in DOMAIN conversations :
             k # resp'.userID =>
               k \in DOMAIN conversations' /\ conversations'[k] = conversations[k]
        /\ \/ events' = events
           \/ /\ Len(events') = Len(events) + 1
              /\ SubSeq(events', 1, Len(events)) = events
              /\ events'[Len(events')].eventType = "contextReset"
              /\ events'[Len(events')].userId = resp'.userID
        /\ resp'.status = 200 =>
             /\ conversations'[resp'.userID] = <<>>
             /\ Len(events') = Len(events) + 1 ]_vars

C9_Witness ==
  /\ resp.op = "reset"
  /\ resp.status = 200
  /\ interactions # <<>>
  /\ \E u \in users : u.id = resp.userID /\ u.requestCount > 0

\* C10: the client does not wait for the acknowledgement of the promptSubmit
\* log call before it sends the /api/submit request: while that log call is
\* unanswered, handleSubmit is not held at it.
C10_SubmitNotHeldByLog == logCall = "pending" => cpc # "awaitLog"

\* the idleStart and idleEnd events among the logged events, in order
idleEvents ==
  SelectSeq(emitted, LAMBDA e : e.eventType \in {"idleStart", "idleEnd"})

\* C11: for one mounted view, the idleStart and idleEnd events alternate,
\* starting with an idleStart; an idleStart is emitted only when at least
\* 60000 ms have passed since the last activity signal (or the mount); an
\* activity signal emits exactly one idleEnd when the view is idle and nothing
\* when it is not; the view is idle exactly after an idleStart that no idleEnd
\* has followed.
C11_IdleEventsAlternate ==
  /\ [](/\ \A i \in 1..Len(idleEvents) :
             idleEvents[i].eventType =
               IF i % 2 = 1 THEN "idleStart" ELSE "idleEnd"
        /\ isIdle <=> (Len(idleEvents) % 2 = 1))
  /\ [][ /\ ( /\ Len(emitted') > Len(emitted)
              /\ emitted'[Len(emitted')].eventType = "idleStart" )
           => now - lastActivityRef >= IDLE_THRESHOLD
         /\ signals' = signals + 1 =>
              emitted' = IF isIdle
                         THEN Append(emitted,
                                [eventType |-> "idleEnd",
                                 data |-> [timestamp |-> now]])
                         ELSE emitted ]_vars

C11_Witness ==
  /\ Len(idleEvents) = 3
  /\ signals = 3
  /\ isIdle

\* the sum of the keystrokeCount of the typing events among the first n
\* logged events
RECURSIVE keystrokesLogged(_)
keystrokesLogged(n) ==
  IF n = 0 THEN 0
  ELSE keystrokesLogged(n - 1) +
       (IF emitted[n].eventType = "typing" THEN emitted[n].data.keystrokeCount
        ELSE 0)

\* C12: at most one typing timer is pending; a prompt change emits nothing,
\* cancels the pending timer and arms one 2000 ms ahead; the keystroke counter
\* and the start time of the burst are reset only in a step that emits a typing
\* event; every prompt change is counted once, in the keystrokeCount of one
\* emitted typing event or in the counter of the burst whose timer is pending.
C12_TypingDebounce ==
  /\ [](/\ Cardinality(typingTimers) <= 1
        /\ changes = keystrokesLogged(Len(emitted)) + keystrokeCountRef
        /\ typingTimers = {} => keystrokeCountRef = 0)
  /\ [][ /\ changes' = changes + 1 =>
              /\ emitted' = emitted
              /\ \E t \in typingTimers' :
                    typingTimers' = {t} /\ t.due = now + TYPING_DELAY
         /\ ( \/ keystrokeCountRef' < keystrokeCountRef
              \/ typingStartTimeRef # 0 /\ typingStartTimeRef' = 0 )
            => /\ Len(emitted') = Len(emitted) + 1
               /\ emitted'[Len(emitted')].eventType = "typing"
               /\ emitted'[Len(emitted')].data.keystrokeCount = keystrokeCountRef
        ]_vars

C12_Witness ==
  /\ Len(emitted) = 2
  /\ emitted[1].eventType = "typing" /\ emitted[1].data.keystrokeCount = 2
  /\ emitted[2].eventType = "typing" /\ emitted[2].data.keystrokeCount = 1
  /\ changes = 3

\* the logged events of one type, in order
eventsOfType(eventType) ==
  SelectSeq(emitted, LAMBDA e : e.eventType = eventType)

\* C13: every request sent to /api/submit is preceded by exactly one
\* promptSubmit event of its own, whose promptText is the prompt the request
\* carries; a responseView event is emitted in the step in which a successful
\* answer of /api/submit is received, once, and in no other step.
C13_SubmitEvents ==
  /\ [](LET promptSubmits == eventsOfType("promptSubmit")
        IN /\ Len(promptSubmits) =
                Len(sent) + (IF cpc = "awaitLog" THEN 1 ELSE 0)
           /\ \A i \in 1..Len(sent) :
                 /\ promptSubmits[i].data.promptText = sent[i]
                 /\ promptSubmits[i].data.promptLength = Len(sent[i]))
  /\ [](LET views == eventsOfType("responseView")
            ok == { i \in 1..Len(answers) : answers[i] = 200 }
        IN /\ Len(views) = Cardinality(ok)
           /\ \A i \in 1..Len(views) : views[i].data.answered \in ok)
  /\ [][ Len(eventsOfType("responseView")') > Len(eventsOfType("responseView"))
          => /\ Len(answers') = Len(answers) + 1
             /\ answers'[Len(answers')] = 200 ]_vars

C13_Witness ==
  /\ Len(sent) = 3
  /\ sent[1] = <<" ", "h">>
  /\ answers = <<200, 500, 200>>
  /\ Len(eventsOfType("responseView")) = 2

\* C14: a promptSubmit log call whose transport fails sets no error state, sends
\* no further request and leaves handleSubmit where it was, able to go on to
\* send the /api/submit request; every call of logEvent sends exactly one
\* request to /api/log-event, and the requests of the client lead to at most
\* one event record each, with the type of the logged event.
C14_LogFailureSwallowed ==
  /\ [](/\ logRequests = Len(emitted)
        /\ handled <= logRequests
        /\ Len(events) <= handled
        /\ logCall = "failed" => ENABLED SendSubmit)
  /\ [][ /\ (logCall = "pending" /\ logCall' = "failed")
              => UNCHANGED <<error, loading, cpc, logRequests, emitted, prompt,
                             events>>
         /\ Len(events') > Len(events)
              => /\ Len(events') = Len(events) + 1
                 /\ handled' = handled + 1
                 /\ events'[Len(events')].eventType = emitted[handled'].eventType
        ]_vars

C14_Witness ==
  /\ Len(sent) = 2
  /\ logCall = "failed"
  /\ cpc = "awaitLog"
  /\ error = ""
  /\ Len(emitted) = 4
  /\ Len(events) = 1

\* the allow-list entry the check takes userId for: userId.trim().toLowerCase()
entryOf(userId) == toLowerCase(trim(userId))

\* the number of successful submissions made under the identifiers in S
RECURSIVE successesOf(_)
successesOf(S) ==
  IF S = {} THEN 0
  ELSE LET u == CHOOSE v \in S : TRUE
       IN succ[u] + successesOf(S \ {u})

\* C15: for every allow-list entry, the successful submissions made under all
\* the spellings the allow-list check accepts as that entry are together at
\* most the ceiling, and at most one user record belongs to those spellings.
C15_OneUserPerEntry ==
  \A e \in { entryOf(u) : u \in { v \in AllUserIDs : isAuthorized(v) } } :
    LET same == { u \in AllUserIDs : entryOf(u) = e }
    IN /\ successesOf(same) <= maxCap
       /\ Cardinality({ u \in users : u.id \in same }) <= 1

\* the user a request of SpecPair came from, read from the text of a turn
senderOf(turn) ==
  IF turn.content[2] % 2 = 1 THEN <<"B", "2">> ELSE chatUser

\* the user whose request this step handles: the one it answers, or the one
\* whose submission it takes as far as the model call
actor ==
  IF resp'.op # "none" THEN resp'.userID
  ELSE LET r == CHOOSE q \in Slots : startsModelCall(q)
       IN req'[r].userID

\* the rows of the events table that belong to userID
eventsOf(userID) ==
  { i \in 1..Len(events) : events[i].userId = userID }

\* C16: windows are not shared between users: every turn of a window, and
\* every turn of the context sent to the model for a user, was sent by or
\* answered to that user; and a step that handles a request of one user leaves
\* the window, the user record, the success count and the records of every
\* other user unchanged.
C16_WindowsPerUser ==
  /\ [](/\ \A k \in DOMAIN conversations : \A i \in 1..Len(conversations[k]) :
             senderOf(conversations[k][i]) = k
        /\ \A r \in Slots : req[r].pc = "model" =>
             \A i \in 2..Len(req[r].ctx) :
               senderOf(req[r].ctx[i]) = req[r].userID)
  /\ [][ \A b \in pairUsers : b # actor =>
           /\ hasConversation(b)' = hasConversation(b)
           /\ window(b)' = window(b)
           /\ getUser(b)' = getUser(b)
           /\ succ'[b] = succ[b]
           /\ interactionsOf(b)' = interactionsOf(b)
           /\ \A i \in interactionsOf(b) : interactions'[i] = interactions[i]
           /\ eventsOf(b)' = eventsOf(b)
           /\ \A i \in eventsOf(b) : events'[i] = events[i] ]_vars

\* a submission of one user succeeded while the other user has a window with
\* turns, a count above 0 and an interaction record
C16_Witness ==
  /\ resp.op = "submit" /\ resp.status = 200
  /\ \E b \in pairUsers \ {resp.userID} :
       /\ window(b) # <<>>
       /\ getUser(b) # <<>> /\ getUser(b)[1].requestCount > 0
       /\ interactionsOf(b) # {}

\* table after a step holds every row of table before it, unchanged and in
\* its place
extends(after, before) ==
  /\ Len(after) >= Len(before)
  /\ \A i \in 1..Len(before) : after[i] = before[i]

\* no two rows of table have the same id
uniqueIds(table) ==
  \A i, j \in 1..Len(table) : table[i].id = table[j].id => i = j

\* C17: interaction records and event records are append-only: every step
\* keeps every stored record with its id and field values and at most adds
\* records, and within each of the two collections the ids are unique.
C17_RecordsAppendOnly ==
  /\ [][extends(interactions', interactions) /\ extends(events', events)]_vars
  /\ [](uniqueIds(interactions) /\ uniqueIds(events))

\* two interaction records and two event records are stored
C17_Witness == Len(interactions) >= 2 /\ Len(events) >= 2

\* type EventType = 'typing' | 'paste' | ... | 'idleStart' | 'idleEnd'
EventType ==
  { "typing", "paste", "copy", "cut", "promptFocus", "promptBlur",
    "promptSubmit", "responseView", "responseScroll", "responseCopy",
    "promptClear", "contextReset", "sessionStart", "sessionEnd",
    "idleStart", "idleEnd" }

\* C18: every stored event record has an event type of the enumeration
\* EventType, whatever requests reach /api/log-event.
C18_StoredTypesEnumerated ==
  \A i \in 1..Len(events) : events[i].eventType \in EventType

\* the user records of this state that the state before did not hold
createdUsers == { u \in users' : getUser(u.id) = <<>> }

\* C19: a user record appears only in a check-user step that is answered 200,
\* for the identifier of that request, with request count 0 and the
\* configured ceiling; a check-user step leaves every record that exists as
\* it is; no identifier has two records; and no step deletes a record or
\* lowers its request count.
C19_UserRecordLifecycle ==
  /\ [][ /\ createdUsers # {} =>
             /\ resp'.op = "check-user" /\ resp'.status = 200
             /\ createdUsers =
                  { [id |-> resp'.userID, requestCount |-> 0,
                     maxRequests |-> maxCap] }
        /\ resp'.op = "check-user" => users \subseteq users'
        /\ \A u \in users : \E v \in users' :
             v.id = u.id /\ v.requestCount >= u.requestCount ]_vars
  /\ [](\A u, v \in users : u.id = v.id => u = v)

\* a check-user request for a user whose record has a count above 0 was
\* answered
C19_Witness ==
  /\ resp.op = "check-user"
  /\ \E u \in users : u.id = resp.userID /\ u.requestCount > 0

\* this step handles the arrival of a submission of userID that carries a
\* prompt: it answers it at once or takes it as far as the model call
submitArrives(userID) ==
  \/ /\ answersOnArrival("submit")
     /\ resp'.userID = userID
     /\ resp'.prompt # noPrompt
  \/ \E r \in Slots : startsModelCall(r) /\ req'[r].userID = userID

\* C20: a submission by an allow-listed identifier that has no user record
\* is answered 404 and ends there: it creates no user record, touches no
\* window, record or count, and does not reach the capacity check or the
\* model call.
C20_SubmitWithoutUser404 ==
  [][ \A u \in AllUserIDs :
        submitArrives(u) /\ isAuthorized(u) /\ getUser(u) = <<>> =>
          /\ resp'.status = 404
          /\ UNCHANGED <<users, conversations, interactions, events, req,
                         succ>> ]_vars

\* a submission with a prompt by an allow-listed identifier without a user
\* record was answered
C20_Witness ==
  /\ resp.op = "submit"
  /\ resp.prompt # noPrompt
  /\ isAuthorized(resp.userID)
  /\ getUser(resp.userID) = <<>>

\* C20 as stated: such a submission creates the record with request count 0
\* and the configured ceiling and goes on to the capacity check: it is
\* answered 403 or reaches the model call.
C20_SubmitCreatesUser ==
  [][ \A u \in AllUserIDs :
        submitArrives(u) /\ isAuthorized(u) /\ getUser(u) = <<>> =>
          /\ getUser(u)' = << newUser(u) >>
          /\ \/ \E r \in Slots : startsModelCall(r)
             \/ resp'.status = 403 ]_vars

\* the answer of the first check of /api/submit that fails for a request
\* with this userID and prompt, 0 when none fails
firstFailingCheck(userID, promptSent) ==
  IF promptSent = noPrompt \/ userID = <<>> THEN 400
  ELSE IF ~isAuthorized(userID) THEN 401
  ELSE IF \A u \in users : u.id # userID THEN 404
  ELSE IF atCeiling(userID) THEN 403
  ELSE 0

\* C21: /api/submit answers a request on arrival with the code of its first
\* failing check, in the order 400 (prompt or userID missing), 401 (not on
\* the allow-list), 404 (no user record), 403 (count at the ceiling), and
\* takes a request to the model call only when no check fails.
C21_FirstFailingCheckDecides ==
  [][ /\ answersOnArrival("submit") =>
           resp'.status = firstFailingCheck(resp'.userID, resp'.prompt)
      /\ \A r \in Slots : startsModelCall(r) =>
           firstFailingCheck(req'[r].userID, req'[r].prompt) = 0 ]_vars

\* a submission of an identifier that is not on the allow-list and whose
\* record is at the ceiling was answered
C21_Witness ==
  /\ resp.op = "submit"
  /\ resp.prompt # noPrompt
  /\ resp.userID # <<>>
  /\ ~isAuthorized(resp.userID)
  /\ atCeiling(resp.userID)

\* this step ends the model call of the submission in slot r
endsModelCall(r) == req[r].pc = "model" /\ req'[r].pc = "idle"

\* the model call that this step ends for the submission in slot r gave no
\* content: it threw (no turn is appended) or it returned none (the turn
\* appended holds the placeholder text)
gaveNoContent(r) ==
  LET w == conversations'[req[r].userID]
  IN \/ conversations' = conversations
     \/ w[Len(w)].content = responseText(<<>>)

\* C22: when the model collaborator throws or returns no content, the
\* submission is answered 500, the request count of the user is not
\* incremented and no interaction record is written.
C22_NoContentAnswered500 ==
  [][ \A r \in Slots :
        endsModelCall(r) /\ gaveNoContent(r) =>
          /\ resp'.status = 500
          /\ users' = users
          /\ interactions' = interactions ]_vars

\* the event row that this step appended for a request with this payload
storedAs(data) ==
  /\ Len(events') = Len(events) + 1
  /\ SubSeq(events', 1, Len(events)) = events
  /\ events'[Len(events')].userId = resp'.userID
  /\ events'[Len(events')].data = IF data = "undefined" THEN "{}" ELSE data

expectedPercentage(scrollTop, scrollHeight, clientHeight) ==
  IF scrollHeight - clientHeight = 0 THEN 0
  ELSE (200 * scrollTop + (scrollHeight - clientHeight))
         \div (2 * (scrollHeight - clientHeight))

\* C25: the scrollPercentage of every responseScroll event is the finite
\* number scrollTop / (scrollHeight - clientHeight) * 100, rounded, when the
\* denominator is not zero, and 0 when it is, for every scroll position and
\* every pair of sizes.
C25_ScrollPercentage ==
  [][ \A scrollTop \in 0..MaxScrollTop, scrollHeight \in 1..MaxScrollHeight :
        \A clientHeight \in 1..scrollHeight :
          emitted' = logged("responseScroll",
                            scrollData(scrollTop, scrollHeight, clientHeight))
          => LET p == emitted'[Len(emitted')].data.scrollPercentage
             IN /\ p.kind = "finite"
                /\ p.value = expectedPercentage(scrollTop, scrollHeight,
                                                clientHeight) ]_vars

\* C24: decoding the row that was stored for an interaction (context
\* snapshot, response time, optional token count, a count of 0 included) or
\* for an event payload yields the value that was written.
C24_RoundTrip ==
  [][ /\ \A h \in Histories, t \in ResponseTimes, c \in TokenCounts :
           interactions' = Append(interactions, storedInteraction(h, t, c))
           => decodedInteraction(interactions'[Len(interactions')]) =
                [conversationHistory |-> h, responseTime |-> t,
                 tokenCount |-> c]
      /\ \A d \in Payloads :
           events' = Append(events, storedEvent(d))
           => parseData(events'[Len(events')].data) = d ]_vars

\* the request count stored for userID, 0 when it has no record
countOf(userID) ==
  IF getUser(userID) = <<>> THEN 0 ELSE getUser(userID)[1].requestCount

bothInFlight(a, b) ==
  /\ req[a].pc = "model"
  /\ req[b].pc = "model"
  /\ req[a].userID = req[b].userID
  /\ req[a].prompt[2] < req[b].prompt[2]

\* position i of the window w holds a reply and a later position holds the
\* reply to an earlier prompt
repliesOutOfOrder(w) ==
  \E i, j \in 1..Len(w) :
    /\ i < j
    /\ w[i].role = "assistant"
    /\ w[j].role = "assistant"
    /\ w[i].content[2] > w[j].content[2]

\* C27: submissions of one user are not serialized.  While a submission A of
\* a user is at the model call, a later submission B of that user can be at
\* its model call too, and then B's model context holds no reply to A's
\* prompt, and holds A's prompt unless the window was truncated.
C27_NotSerialized ==
  \A a, b \in Slots :
    bothInFlight(a, b) =>
      /\ \A i \in 2..Len(req[b].ctx) :
           req[b].ctx[i] #
             [role |-> "assistant", content |-> <<"r", req[a].prompt[2]>>]
      /\ Len(req[b].ctx) <= 5 =>
           \E i \in 2..Len(req[b].ctx) :
             req[b].ctx[i] = [role |-> "user", content |-> req[a].prompt]

\* the two replies of two submissions of one user stand in the window in
\* the other order than their prompts, and the interaction record of the
\* later submission holds a snapshot with the prompt of the earlier one and
\* without its reply
C27_Witness ==
  /\ repliesOutOfOrder(window(chatUser))
  /\ \E k \in 1..Len(interactions) :
       LET h == interactions[k].conversationHistory
           n == interactions[k].prompt[2]
       IN \E i \in 1..Len(h) :
            /\ h[i].role = "user"
            /\ h[i].content[2] < n
            /\ \A j \in 1..Len(h) :
                 h[j] # [role |-> "assistant",
                         content |-> <<"r", h[i].content[2]>>]

\* C28: the context snapshot of every interaction record is the window of
\* the user right after the reply of that submission was appended: it holds
\* the prompt of the record as a user turn and its last element is the
\* assistant turn with the response text of the record.
C28_SnapshotHoldsPromptAndReply ==
  [][ Len(interactions') > Len(interactions) =>
        LET row == interactions'[Len(interactions')]
            h == row.conversationHistory
        IN /\ h = conversations'[row.userId]
           /\ h # <<>>
           /\ h[Len(h)] = [role |-> "assistant", content |-> row.response]
           /\ \E i \in 1..Len(h) :
                h[i] = [role |-> "user", content |-> row.prompt] ]_vars

\* C29: the context handed to the model for a submission is the system
\* instruction followed by 1 to 5 window turns, the last of which is the user
\* turn with the submitted prompt; no window holds the system instruction:
\* every turn of every window has the role user or assistant.
C29_ContextShape ==
  /\ \A r \in Slots : req[r].pc = "model" =>
       LET ctx == req[r].ctx
       IN /\ Len(ctx) \in 2..6
          /\ ctx[1] = [role |-> "system", content |-> SYSTEM_PROMPT]
          /\ ctx[Len(ctx)] = [role |-> "user", content |-> req[r].prompt]
          /\ \A i \in 2..Len(ctx) : ctx[i].role \in {"user", "assistant"}
  /\ \A k \in DOMAIN conversations : \A i \in 1..Len(conversations[k]) :
       conversations[k][i].role \in {"user", "assistant"}

\* a model call whose context holds the system instruction and 5 window
\* turns, a reply among them, while the window has grown beyond 5 turns
C29_Witness ==
  \E r \in Slots :
    /\ req[r].pc = "model"
    /\ Len(req[r].ctx) = 6
    /\ \E i \in 2..6 : req[r].ctx[i].role = "assistant"
    /\ Len(window(req[r].userID)) > 5

\* w holds the turns of v, in their places, and possibly more after them
startsWith(w, v) ==
  /\ Len(w) >= Len(v)
  /\ SubSeq(w, 1, Len(v)) = v

\* C30: a submission that fails at the model call is not rolled back in the
\* conversation store.  The step that ends a model call takes no turn out of
\* the window; when it appends no reply it is answered 500 and leaves the
\* window, the request counts and the interaction records as they were, so
\* the user turn of the failed prompt stays; and the context of a submission
\* holds the turn that ended the window before it, the failed prompt
\* included, right before its own prompt.
C30_FailedCallNotRolledBack ==
  [][ /\ \A r \in Slots, u \in AllUserIDs :
           endsModelCall(r) /\ u = req[r].userID =>
             /\ hasConversation(u)'
             /\ startsWith(window(u)', window(u))
             /\ window(u)' = window(u) =>
                  /\ resp'.status = 500
                  /\ users' = users
                  /\ interactions' = interactions
      /\ \A r \in Slots, u \in AllUserIDs :
           startsModelCall(r) /\ u = req'[r].userID /\ window(u) # <<>> =>
             req'[r].ctx[Len(req'[r].ctx) - 1] = window(u)[Len(window(u))]
     ]_vars

\* the only submission at the model call has a context of two user turns:
\* the prompt before its own was never answered, and no count was incremented
\* and no record written for it
C30_Witness ==
  /\ req[1].pc = "model"
  /\ \A r \in Slots \ {1} : req[r].pc = "idle"
  /\ Len(req[1].ctx) = 3
  /\ req[1].ctx[2].role = "user"
  /\ countOf(req[1].userID) = 0
  /\ interactions = <<>>

====
